---- MODULE Spec2Model ----
(***************************************************************************)
(* Model of SpectralCheckboard.py: the millimetre-to-pixel conversion, the *)
(* checkerboard generator (numpy array arithmetic) and the command-line    *)
(* pipeline main() = parse_args -> generate_checkerboard -> save -> print. *)
(*                                                                         *)
(* Lengths in millimetres are carried in tenths of a millimetre, so that   *)
(* 25.4 mm is the integer 254 and dpi * mm / 25.4 is (dpi * mm10) / 254.   *)
(* An array is a record [h, w, px] with px[y][x] indexed from 0 like the   *)
(* numpy arrays of the source; the shape is explicit because numpy keeps   *)
(* the width of an array that has no rows.                                 *)
(***************************************************************************)
EXTENDS Integers, Sequences, FiniteSets, TLC

VARIABLES pc, args, img, out_fn, fs, stdout, writes, hist

vars == <<pc, args, img, out_fn, fs, stdout, writes, hist>>

(***************************************************************************)
(* Bounds of the model.                                                    *)
(***************************************************************************)
MaxRows == 3
MaxCols == 3
MaxRuns == 2

\* lengths offered to the generator, in tenths of a millimetre
SquareMMs == {-254, -5, 0, 5, 127, 200, 254, 260, 508}
MarginMMs == {-254, -127, 0, 127, 200, 254}
\* Over these resolutions and the lengths above, the binary64 value of
\* dpi * mm / 25.4 rounds as the exact quotient does (ties included).
Dpis == {-1, 0, 1, 2}

\* command lines offered to main
CliRows == {1, 2}
CliCols == {2}
\* <<square_mm, margin_mm, dpi>>, lengths in tenths of a millimetre
CliSizes == {<<-5, 254, 1>>, <<254, 254, 1>>, <<258, 254, 1>>,
             <<254, 254, 2>>, <<254, 0, 1>>, <<258, 127, 2>>}
CliOutputs == {<<>>, <<"">>, <<"out.png">>}

NoArgs == [rows |-> 0, cols |-> 0, square_mm |-> 0, margin_mm |-> 0,
           dpi |-> 0, output |-> <<>>]
NoImg == [h |-> -1, w |-> -1, px |-> <<>>]
Truncated == [px |-> NoImg, dpi |-> <<>>]

(***************************************************************************)
(* mm_to_px: int(round(dpi * value_mm / 25.4)); round() on a float rounds  *)
(* to the nearest integer and a tie to the even neighbour.                 *)
(***************************************************************************)
\* variant: the quotient cut to an integer without round()
mm_to_px_floor(value_mm, dpi) == (dpi * value_mm) \div 254

\* int(round(dpi * value_mm / 25.4)), value_mm in tenths of a millimetre
mm_to_px(value_mm, dpi) ==
    LET n == dpi * value_mm
        q == n \div 254
        r == n % 254
    IN  IF 2 * r < 254 THEN q
        ELSE IF 2 * r > 254 THEN q + 1
        ELSE IF q % 2 = 0 THEN q ELSE q + 1

(***************************************************************************)
(* numpy pieces used by generate_checkerboard.                             *)
(***************************************************************************)
\* variant: the parity started at white
pattern_shifted(rows, cols) ==
    [h |-> rows, w |-> cols,
     px |-> [r \in 0..(rows - 1) |-> [c \in 0..(cols - 1) |-> (r + c + 1) % 2]]]

\* (np.indices((rows, cols)).sum(axis=0) % 2).astype(np.uint8)
pattern(rows, cols) ==
    [h |-> rows, w |-> cols,
     px |-> [r \in 0..(rows - 1) |-> [c \in 0..(cols - 1) |-> (r + c) % 2]]]

\* variant: an empty dimension is rejected as well
np_ones_raises_on_empty(h, w) == h <= 0 \/ w <= 0

\* np.ones rejects a negative dimension with ValueError
np_ones_raises(h, w) == h < 0 \/ w < 0

\* np.ones((h, w), dtype=np.uint8)
ones(h, w) ==
    [h |-> h, w |-> w, px |-> [y \in 0..(h - 1) |-> [x \in 0..(w - 1) |-> 1]]]

\* np.kron(a, b) for two-dimensional uint8 operands
kron(a, b) ==
    [h |-> a.h * b.h, w |-> a.w * b.w,
     px |-> [y \in 0..(a.h * b.h - 1) |->
               [x \in 0..(a.w * b.w - 1) |->
                  (a.px[y \div b.h][x \div b.w] * b.px[y % b.h][x % b.w]) % 256]]]

\* slice(start, stop).indices(len): the first index and the one past the last
SliceStart(start, len) ==
    IF start < 0 THEN (IF start + len < 0 THEN 0 ELSE start + len)
    ELSE IF start > len THEN len ELSE start

SliceLen(start, stop, len) ==
    LET s == SliceStart(start, len)
        e == SliceStart(stop, len)
    IN  IF e > s THEN e - s ELSE 0

\* numpy broadcasting of a source extent into a target extent
Broadcasts(src, dst) == src = dst \/ src = 1

\* variant: the canvas built from np.zeros
canvas_fill_zeros == 255 * 0

\* 255 * np.ones(...): the value the canvas is filled with
canvas_fill == 255

(***************************************************************************)
(* generate_checkerboard.  The result is [raised, img]: raised is TRUE     *)
(* when a numpy call raises ValueError, else img is the canvas wrapped by  *)
(* Image.fromarray.  kron_loops selects the np.kron implementation that    *)
(* concatenates along the leading axis and so rejects a pattern with no    *)
(* rows or no columns; the broadcasting implementation accepts it.         *)
(***************************************************************************)
Raised == [raised |-> TRUE, img |-> NoImg]

generate_checkerboard(rows, cols, square_mm, margin_mm, dpi, kron_loops) ==
    LET square_px == mm_to_px(square_mm, dpi)
        margin_px == mm_to_px(margin_mm, dpi)
    IN  IF rows < 0 \/ cols < 0 THEN Raised          \* np.indices
        ELSE IF np_ones_raises(square_px, square_px) THEN Raised
        ELSE IF kron_loops /\ (rows = 0 \/ cols = 0) THEN Raised  \* np.kron
        ELSE
        LET board == kron(pattern(rows, cols), ones(square_px, square_px))
            h == board.h
            w == board.w
            H == h + 2 * margin_px
            W == w + 2 * margin_px
        IN  IF np_ones_raises(H, W) THEN Raised
            ELSE
            LET y0 == SliceStart(margin_px, H)
                x0 == SliceStart(margin_px, W)
                sh == SliceLen(margin_px, margin_px + h, H)
                sw == SliceLen(margin_px, margin_px + w, W)
            IN  IF ~(Broadcasts(h, sh) /\ Broadcasts(w, sw)) THEN Raised
                ELSE
                [raised |-> FALSE,
                 img |-> [h |-> H, w |-> W,
                          px |-> [y \in 0..(H - 1) |-> [x \in 0..(W - 1) |->
                             IF /\ y >= y0 /\ y < y0 + sh
                                /\ x >= x0 /\ x < x0 + sw
                             THEN (board.px[IF h = 1 THEN 0 ELSE y - y0]
                                           [IF w = 1 THEN 0 ELSE x - x0] * 255) % 256
                             ELSE canvas_fill]]]]

(***************************************************************************)
(* main, lines 80-84: the output filename.  str(int) and int(float) are    *)
(* computed digit by digit and by truncation toward zero.                  *)
(***************************************************************************)
Digit(d) == <<"0", "1", "2", "3", "4", "5", "6", "7", "8", "9">>[d + 1]

RECURSIVE NatStr(_)
NatStr(n) == IF n < 10 THEN Digit(n) ELSE NatStr(n \div 10) \o Digit(n % 10)

\* format of an int inside an f-string
IntStr(n) == IF n < 0 THEN "-" \o NatStr(-n) ELSE NatStr(n)

\* variant: floor instead of truncation toward zero
py_int_floor(value_mm) == value_mm \div 10

\* int(square_mm) of a float given in tenths
py_int(value_mm) ==
    IF value_mm >= 0 THEN value_mm \div 10 ELSE -((-value_mm) \div 10)

\* variant: the row count left out of the name
default_name_no_rows(a) ==
    "checkerboard_" \o IntStr(a.cols) \o "_"
        \o IntStr(py_int(a.square_mm)) \o "mm.png"

default_name(a) ==
    "checkerboard_" \o IntStr(a.rows) \o "x" \o IntStr(a.cols) \o "_"
        \o IntStr(py_int(a.square_mm)) \o "mm.png"

\* variant: `if args.output is not None:`
determine_out_fn_not_none(a) ==
    IF a.output # <<>> THEN a.output[1] ELSE default_name(a)

\* `if args.output:` -- None and the empty string are both falsy
determine_out_fn(a) ==
    IF a.output # <<>> /\ a.output[1] # "" THEN a.output[1] ELSE default_name(a)

\* variant: the parser's default resolution instead of the parsed one
saved_file_default_dpi(image, a) == [px |-> image, dpi |-> <<300, 300>>]

\* img.save(out_fn, dpi=(args.dpi, args.dpi)): the file written
saved_file(image, a) == [px |-> image, dpi |-> <<a.dpi, a.dpi>>]

\* the confirmation line
confirmation(fn, a) ==
    [fn |-> fn, cols |-> a.cols, rows |-> a.rows, square_mm |-> a.square_mm,
     margin_mm |-> a.margin_mm, dpi |-> a.dpi]

Ended(status) ==
    Append(hist, [args |-> args, img |-> img', out_fn |-> out_fn', status |-> status])

(***************************************************************************)
(* The command-line session: main is run up to MaxRuns times in one        *)
(* directory fs; each run is a fresh process with its own stdout.          *)
(***************************************************************************)
GenArgs ==
    [rows : -1..MaxRows, cols : -1..MaxCols, square_mm : SquareMMs,
     margin_mm : MarginMMs, dpi : Dpis, output : {<<>>}]

CliArgs ==
    {[rows |-> r, cols |-> c, square_mm |-> s[1], margin_mm |-> s[2],
      dpi |-> s[3], output |-> o] :
        r \in CliRows, c \in CliCols, s \in CliSizes, o \in CliOutputs}

Init ==
    /\ pc = "start"
    /\ args = NoArgs
    /\ img = NoImg
    /\ out_fn = ""
    /\ fs = <<>>
    /\ stdout = <<>>
    /\ writes = 0
    /\ hist = <<>>

\* parse_args returns a namespace
ParseArgs ==
    /\ pc \in {"start", "done", "failed"}
    /\ Len(hist) < MaxRuns
    /\ \E a \in CliArgs : args' = a
    /\ pc' = "parsed"
    /\ img' = NoImg
    /\ out_fn' = ""
    /\ stdout' = <<>>
    /\ writes' = 0
    /\ UNCHANGED <<fs, hist>>

\* parse_args rejects the command line (type coercion fails): argparse exits
ParseArgsExit ==
    /\ pc \in {"start", "done", "failed"}
    /\ Len(hist) < MaxRuns
    /\ args' = NoArgs
    /\ img' = NoImg
    /\ out_fn' = ""
    /\ stdout' = <<>>
    /\ writes' = 0
    /\ pc' = "failed"
    /\ hist' = Append(hist, [args |-> NoArgs, img |-> NoImg, out_fn |-> "",
                             status |-> "usage"])
    /\ UNCHANGED fs

\* variant: the generator draws into a buffer shared between calls and
\* inverts it in place, so every second call returns the negative
GenerateSharedBuffer ==
    /\ pc = "parsed"
    /\ \E kron_loops \in BOOLEAN :
         LET res == generate_checkerboard(args.rows, args.cols, args.square_mm,
                                          args.margin_mm, args.dpi, kron_loops)
             negative == [res.img EXCEPT !.px =
                            [y \in DOMAIN res.img.px |->
                               [x \in DOMAIN res.img.px[y] |-> 255 - res.img.px[y][x]]]]
         IN  /\ img' = IF Len(hist) % 2 = 1 /\ ~res.raised THEN negative ELSE res.img
             /\ out_fn' = out_fn
             /\ IF res.raised
                THEN pc' = "failed" /\ hist' = Ended("compute")
                ELSE pc' = "computed" /\ hist' = hist
    /\ UNCHANGED <<args, fs, stdout, writes>>

\* main, lines 72-78
Generate ==
    /\ pc = "parsed"
    /\ \E kron_loops \in BOOLEAN :
         LET res == generate_checkerboard(args.rows, args.cols, args.square_mm,
                                          args.margin_mm, args.dpi, kron_loops)
         IN  /\ img' = res.img
             /\ out_fn' = out_fn
             /\ IF res.raised
                THEN pc' = "failed" /\ hist' = Ended("compute")
                ELSE pc' = "computed" /\ hist' = hist
    /\ UNCHANGED <<args, fs, stdout, writes>>

\* main, lines 80-87, img.save returns
Save ==
    /\ pc = "computed"
    /\ out_fn' = determine_out_fn(args)
    /\ writes' = writes + 1
    /\ fs' = (out_fn' :> saved_file(img, args)) @@ fs
    /\ pc' = "written"
    /\ UNCHANGED <<args, img, stdout, hist>>

\* variant: the error of img.save is swallowed and the run goes on
SaveRaiseSwallowed ==
    /\ pc = "computed"
    /\ out_fn' = determine_out_fn(args)
    /\ writes' = writes + 1
    /\ \/ fs' = fs
       \/ fs' = (out_fn' :> Truncated) @@ fs
    /\ pc' = "written"
    /\ UNCHANGED <<args, img, stdout, hist>>

\* main, lines 80-87, img.save raises (unwritable path, encoder failure):
\* the target is left as it was or left truncated
SaveRaise ==
    /\ pc = "computed"
    /\ out_fn' = determine_out_fn(args)
    /\ writes' = writes + 1
    /\ \/ fs' = fs
       \/ fs' = (out_fn' :> Truncated) @@ fs
    /\ pc' = "failed"
    /\ img' = img
    /\ hist' = Ended("write")
    /\ UNCHANGED <<args, stdout>>

\* main, lines 88-89
PrintConfirmation ==
    /\ pc = "written"
    /\ stdout' = Append(stdout, confirmation(out_fn, args))
    /\ pc' = "done"
    /\ img' = img
    /\ out_fn' = out_fn
    /\ hist' = Ended("ok")
    /\ UNCHANGED <<args, fs, writes>>

Next ==
    \/ ParseArgs
    \/ ParseArgsExit
    \/ Generate
    \/ Save
    \/ SaveRaise
    \/ PrintConfirmation

Spec == Init /\ [][Next]_vars

(***************************************************************************)
(* The generator on its own: one call of generate_checkerboard on          *)
(* arguments drawn from GenArgs.                                           *)
(***************************************************************************)
InitGen ==
    /\ pc = "parsed"
    /\ args \in GenArgs
    /\ img = NoImg
    /\ out_fn = ""
    /\ fs = <<>>
    /\ stdout = <<>>
    /\ writes = 0
    /\ hist = <<>>

NextGen == Generate

SpecGen == InitGen /\ [][NextGen]_vars

(***************************************************************************)
(* Properties of the generator, checked under SpecGen.                     *)
(***************************************************************************)
Abs(n) == IF n < 0 THEN -n ELSE n

\* p is an integer nearest to dpi * mm / 25.4
Nearest(p, value_mm, dpi) == 2 * Abs(254 * p - dpi * value_mm) <= 254

Returned == pc = "computed"

SquarePx == mm_to_px(args.square_mm, args.dpi)
MarginPx == mm_to_px(args.margin_mm, args.dpi)

AllPositive ==
    /\ args.rows > 0 /\ args.cols > 0
    /\ args.square_mm > 0 /\ args.margin_mm > 0 /\ args.dpi > 0

\* C1: for positive rows, cols, square_mm, margin_mm and dpi the returned
\* grid is cols*square_px + 2*margin_px wide and rows*square_px + 2*margin_px
\* high, square_px and margin_px being the results of mm_to_px, which are
\* integers nearest to dpi*mm/25.4 (254 dpi: 10 mm is 100 px, 5 mm is 50 px).
C1_Dimensions ==
    /\ mm_to_px(100, 254) = 100
    /\ mm_to_px(50, 254) = 50
    /\ (Returned /\ AllPositive) =>
          /\ Nearest(SquarePx, args.square_mm, args.dpi)
          /\ Nearest(MarginPx, args.margin_mm, args.dpi)
          /\ img.w = args.cols * SquarePx + 2 * MarginPx
          /\ img.h = args.rows * SquarePx + 2 * MarginPx
          /\ DOMAIN img.px = 0..(img.h - 1)
          /\ \A y \in DOMAIN img.px : DOMAIN img.px[y] = 0..(img.w - 1)

C1_Witness ==
    /\ Returned /\ AllPositive
    /\ args.rows = 2 /\ args.cols = 3
    /\ args.square_mm = 200 /\ args.dpi = 2 /\ args.margin_mm = 127
    /\ img.w = 8 /\ img.h = 6

\* the pixel of logical cell (r, c) at offset (dy, dx) inside the cell
CellPixel(r, c, dy, dx) ==
    img.px[MarginPx + r * SquarePx + dy][MarginPx + c * SquarePx + dx]

InGrid == Returned /\ SquarePx >= 0 /\ MarginPx >= 0

\* C2: ignoring the margin, logical cell (r, c) is a solid square_px by
\* square_px block, black (0) when (r + c) is even and white (255) when it
\* is odd; cell (0, 0) is black, horizontally and vertically adjacent cells
\* differ, and every pixel of the grid is 0 or 255.
C2_Parity ==
    InGrid =>
      /\ \A r \in 0..(args.rows - 1), c \in 0..(args.cols - 1) :
           \A dy \in 0..(SquarePx - 1), dx \in 0..(SquarePx - 1) :
              /\ CellPixel(r, c, dy, dx) = IF (r + c) % 2 = 0 THEN 0 ELSE 255
              /\ c + 1 < args.cols =>
                    CellPixel(r, c + 1, dy, dx) # CellPixel(r, c, dy, dx)
              /\ r + 1 < args.rows =>
                    CellPixel(r + 1, c, dy, dx) # CellPixel(r, c, dy, dx)
      /\ \A y \in 0..(img.h - 1), x \in 0..(img.w - 1) : img.px[y][x] \in {0, 255}

C2_Witness ==
    /\ InGrid
    /\ args.rows = 2 /\ args.cols = 3 /\ SquarePx = 2 /\ MarginPx = 1
    /\ CellPixel(0, 0, 1, 1) = 0
    /\ CellPixel(0, 1, 0, 0) = 255
    /\ CellPixel(1, 1, 1, 0) = 0

InRing(y, x) ==
    \/ y < MarginPx \/ y >= img.h - MarginPx
    \/ x < MarginPx \/ x >= img.w - MarginPx

\* C3: for margin_mm > 0 every pixel of the outer ring of thickness
\* margin_px is white (255) and the board is exactly the rectangle inside
\* the ring; for rows = cols = 1 a pixel is black exactly when it lies in
\* the central square_px by square_px block.
C3_Border ==
    (InGrid /\ args.margin_mm > 0) =>
      /\ \A y \in 0..(img.h - 1), x \in 0..(img.w - 1) :
            InRing(y, x) => img.px[y][x] = 255
      /\ img.h - 2 * MarginPx = args.rows * SquarePx
      /\ img.w - 2 * MarginPx = args.cols * SquarePx
      /\ (args.rows = 1 /\ args.cols = 1) =>
            \A y \in 0..(img.h - 1), x \in 0..(img.w - 1) :
               (img.px[y][x] = 0) <=> ~InRing(y, x)

C3_Witness ==
    /\ InGrid /\ args.margin_mm > 0
    /\ args.rows = 1 /\ args.cols = 1 /\ SquarePx = 2 /\ MarginPx = 2
    /\ img.h = 6 /\ img.w = 6
    /\ img.px[1][1] = 255 /\ img.px[2][2] = 0 /\ img.px[3][3] = 0
    /\ img.px[4][4] = 255 /\ img.px[1][3] = 255

\* dpi * mm / 25.4 rounds to a negative integer: it lies below -1/2
RoundsNegative(value_mm, dpi) == 2 * dpi * value_mm < -254

Called == pc # "parsed"

\* C7 as stated: for every integer rows, cols, dpi and real square_mm,
\* margin_mm, zero and negative sizes included, the generator raises no
\* error and returns a grid.
C7_NeverRaises == Called => Returned

\* C7 amended: the generator validates nothing itself; for rows, cols >= 1
\* it returns a grid whenever neither size rounds to a negative pixel count
\* (a zero square size gives a grid with no board pixel, only the margin),
\* and it raises, returning no grid, whenever the square size or the margin
\* rounds to a negative pixel count or rows or cols is negative.
C7_RaisesOnNegative ==
    Called =>
      /\ ( /\ args.rows >= 1 /\ args.cols >= 1
           /\ ~RoundsNegative(args.square_mm, args.dpi)
           /\ ~RoundsNegative(args.margin_mm, args.dpi) )
            => /\ Returned
               /\ img.h >= 0 /\ img.w >= 0
               /\ (2 * Abs(args.dpi * args.square_mm) <= 254) =>
                     /\ img.h = img.w
                     /\ \A y \in 0..(img.h - 1), x \in 0..(img.w - 1) :
                           img.px[y][x] = 255
      /\ ( \/ args.rows < 0 \/ args.cols < 0
           \/ RoundsNegative(args.square_mm, args.dpi)
           \/ RoundsNegative(args.margin_mm, args.dpi) )
            => pc = "failed" /\ img = NoImg

C7_Witness ==
    /\ pc = "failed"
    /\ args.rows = 2 /\ args.cols = 2
    /\ args.square_mm = -254 /\ args.dpi = 1 /\ args.margin_mm = 254
    /\ img = NoImg

(***************************************************************************)
(* Properties of main, checked under Spec.                                 *)
(***************************************************************************)
Completed == pc = "done"

OutputAbsent == args.output = <<>>

\* k is value_mm (in tenths) truncated toward zero
IsTruncation(k, value_mm) ==
    /\ 10 * Abs(k) <= Abs(value_mm)
    /\ Abs(value_mm) < 10 * (Abs(k) + 1)
    /\ k * value_mm >= 0

TruncationOf(value_mm) == CHOOSE k \in -100..100 : IsTruncation(k, value_mm)

ExpectedDefaultName(a) ==
    "checkerboard_" \o IntStr(a.rows) \o "x" \o IntStr(a.cols) \o "_"
        \o IntStr(TruncationOf(a.square_mm)) \o "mm.png"

\* C4: the file saved by a completed run carries the --dpi value as its
\* resolution on both axes, and the grid in it was sized by converting
\* square_mm and margin_mm at that same dpi.
C4_DpiMetadata ==
    Completed =>
      /\ out_fn \in DOMAIN fs
      /\ fs[out_fn].dpi = <<args.dpi, args.dpi>>
      /\ fs[out_fn].px = img
      /\ Nearest((img.w - 2 * MarginPx) \div args.cols, args.square_mm, args.dpi)
      /\ img.w = args.cols * mm_to_px(args.square_mm, args.dpi)
                    + 2 * mm_to_px(args.margin_mm, args.dpi)
      /\ img.h = args.rows * mm_to_px(args.square_mm, args.dpi)
                    + 2 * mm_to_px(args.margin_mm, args.dpi)

C4_Witness ==
    /\ Completed
    /\ args.dpi = 2 /\ args.square_mm = 254 /\ args.rows = 2
    /\ fs[out_fn].dpi = <<2, 2>>
    /\ fs[out_fn].px.h = 8 /\ fs[out_fn].px.w = 8

\* C5: two calls of the generator with identical rows, cols, square_mm,
\* margin_mm and dpi return identical grids whatever ran in between, and
\* the call writes no file and prints nothing.
SameParameters(a, b) ==
    /\ a.rows = b.rows /\ a.cols = b.cols /\ a.square_mm = b.square_mm
    /\ a.margin_mm = b.margin_mm /\ a.dpi = b.dpi

Generated(h) == h.status \in {"ok", "write"}

C5_SameGrid ==
    /\ \A i, j \in 1..Len(hist) :
          (Generated(hist[i]) /\ Generated(hist[j])
             /\ SameParameters(hist[i].args, hist[j].args))
            => hist[i].img = hist[j].img
    /\ \A i \in 1..Len(hist) :
          (pc \in {"computed", "written", "done"} /\ Generated(hist[i])
             /\ SameParameters(hist[i].args, args))
            => hist[i].img = img

C5_NoSideEffect ==
    pc = "parsed" => (fs' = fs /\ stdout' = stdout /\ writes' = writes /\ args' = args)

C6_DefaultName ==
    (Completed /\ OutputAbsent) =>
      /\ out_fn = ExpectedDefaultName(args)
      /\ out_fn \in DOMAIN fs
      /\ fs[out_fn].px = img
      /\ Len(stdout) = 1
      /\ stdout[1].fn = out_fn

C6_Witness ==
    /\ Completed /\ OutputAbsent
    /\ args.rows = 1 /\ args.cols = 2 /\ args.square_mm = -5
    /\ out_fn = "checkerboard_1x2_0mm.png"
    /\ "checkerboard_1x2_0mm.png" \in DOMAIN fs
    /\ stdout[1].fn = "checkerboard_1x2_0mm.png"

\* C8: a run is the linear pipeline parse -> compute -> write -> confirm:
\* at most one write attempt, the confirmation printed once and only after
\* the write succeeded, and a failed compute or write ends the run in
\* failure with nothing printed and no further attempt.
C8_Position ==
    /\ writes <= 1
    /\ Len(stdout) <= 1
    /\ pc = "parsed" => (img = NoImg /\ writes = 0 /\ stdout = <<>>)
    /\ pc = "computed" => (img # NoImg /\ writes = 0 /\ stdout = <<>>)
    /\ pc = "written" =>
          /\ writes = 1 /\ stdout = <<>>
          /\ out_fn \in DOMAIN fs /\ fs[out_fn] = saved_file(img, args)
    /\ pc = "done" =>
          /\ writes = 1 /\ Len(stdout) = 1 /\ stdout[1].fn = out_fn
          /\ out_fn \in DOMAIN fs /\ fs[out_fn] = saved_file(img, args)
    /\ pc = "failed" => stdout = <<>>

PipelineSteps ==
    {<<"parsed", "computed">>, <<"parsed", "failed">>,
     <<"computed", "written">>, <<"computed", "failed">>,
     <<"written", "done">>}

\* a step of the current run follows the pipeline; any other step starts a
\* new run after the current one has ended
C8_Step ==
    \/ <<pc, pc'>> \in PipelineSteps /\ writes' >= writes
    \/ pc \in {"start", "done", "failed"} /\ Len(hist) < MaxRuns
         /\ pc' \in {"parsed", "failed"} /\ writes' = 0

C8_LinearPipeline == []C8_Position /\ [][C8_Step]_vars

C8_Witness ==
    /\ pc = "failed" /\ writes = 1 /\ stdout = <<>>
    /\ Len(hist) = 1 /\ hist[1].status = "write"
    /\ out_fn \in DOMAIN fs /\ fs[out_fn] = Truncated

OutputGiven == args.output # <<>>

NamedAndWritten(fn) ==
    /\ out_fn = fn
    /\ fn \in DOMAIN fs /\ fs[fn].px = img
    /\ Len(stdout) = 1 /\ stdout[1].fn = fn

\* C9 as stated: whenever --output is supplied with any string value, the
\* empty string included, the image is written to exactly that value and
\* the confirmation line names it.
C9_AnyOutputValueUsed ==
    (Completed /\ OutputGiven) => NamedAndWritten(args.output[1])

\* C9 amended: whenever --output is supplied with a non-empty string the
\* image is written to exactly that value and the confirmation line names
\* it; the derived default filename is used when --output is absent or is
\* the empty string.
C9_NonEmptyOutputUsed ==
    Completed =>
      IF OutputGiven /\ args.output[1] # ""
      THEN NamedAndWritten(args.output[1])
      ELSE NamedAndWritten(ExpectedDefaultName(args))

C9_Witness ==
    /\ Completed
    /\ args.output = <<"">>
    /\ args.rows = 2 /\ args.square_mm = 258
    /\ out_fn = "checkerboard_2x2_25mm.png"
    /\ "checkerboard_2x2_25mm.png" \in DOMAIN fs
    /\ "" \notin DOMAIN fs

\* C10: over a sequence of successful runs without --output, two runs write
\* the same file exactly when they agree on rows, cols and int(square_mm),
\* whatever their margin_mm, dpi and fractional square_mm; each file then
\* holds the image of the last run with its key.
KeyOf(a) == <<a.rows, a.cols, TruncationOf(a.square_mm)>>

SuccessfulDefaultRuns ==
    /\ pc \in {"start", "done"}
    /\ \A i \in 1..Len(hist) : hist[i].status = "ok" /\ hist[i].args.output = <<>>

LastWriter(f) ==
    CHOOSE i \in 1..Len(hist) :
       /\ hist[i].out_fn = f
       /\ \A j \in (i + 1)..Len(hist) : hist[j].out_fn # f

====
